---- MODULE Spec2Model ----
(***************************************************************************)
(* Model of the research-vuln-agent repository:                            *)
(*   - ingestFindings (frontend/scripts/ingest-findings.ts): per-record    *)
(*     transactional upsert of findings into the property graph;           *)
(*   - enrichGraph (the enrichment script): pairwise correlation of        *)
(*     findings through the LLM oracle, RELATED_TO edges;                  *)
(*   - sendMessage / read (mindfort-agentic/app/chat/page.tsx, chat.tsx):  *)
(*     reconstruction of the streamed agent steps;                         *)
(*   - extractLLMContent (both trace pages): envelope normalizer.          *)
(* Each subsystem has its own specification over the shared variables;     *)
(* the variables of the other subsystems stay at their initial value.      *)
(***************************************************************************)
EXTENDS Integers, Sequences, FiniteSets, Bags, TLC

VARIABLES
    store,      \* the committed graph: [nodes, edges]
    findings,   \* ingestFindings: the parsed findings_data.json
    idx,        \* ingestFindings: number of records the for loop has taken
    ipc,        \* ingestFindings: position in the handler
    tx,         \* ingestFindings: the graph as seen inside the open transaction
    err,        \* ingestFindings: the call whose failure was caught for the current record
    ilog,       \* ingestFindings: outcome of every record processed so far
    epc,        \* enrichGraph: position in the handler
    records,    \* enrichGraph: result.records of the candidate query (a bag of rows)
    asked,      \* enrichGraph: the rows the for loop has taken and sent to the oracle
    row,        \* enrichGraph: the row of the current iteration
    agentReply, \* enrichGraph: the oracle's reply for the current row
    elog,       \* enrichGraph: what the run has written to the console
    input,      \* chat page: the text of the input box
    messages,   \* chat page: the conversation shown
    loading,    \* chat page: the loading flag
    agentSteps, \* chat page: the steps shown while the reply streams in
    spc,        \* sendMessage: position of the call
    steps,      \* sendMessage: the local array of parsed steps
    buffer,     \* sendMessage: the text carried over between two reads
    body,       \* sendMessage: the text the response body delivers
    pos,        \* sendMessage: how much of body the reader has delivered
    calls,      \* chat page: the calls of sendMessage made so far, each with its locals
    envelope,   \* trace page: the value handed to extractLLMContent
    agentic,    \* trace page: outcome of the mindfort-agentic copy
    frontend    \* trace page: outcome of the frontend copy

ingestVars == <<findings, idx, ipc, tx, err, ilog>>
enrichVars == <<epc, records, asked, row, agentReply, elog>>
chatVars == <<input, messages, loading, agentSteps, spc, steps, buffer, body, pos, calls>>
traceVars == <<envelope, agentic, frontend>>
vars == <<store, findings, idx, ipc, tx, err, ilog,
          epc, records, asked, row, agentReply, elog,
          input, messages, loading, agentSteps, spc, steps, buffer, body, pos,
          calls,
          envelope, agentic, frontend>>

----------------------------------------------------------------------------
(* Generic helpers *)

Null == "null"          \* JavaScript undefined / null, Cypher null

SeqsUpTo(S, n) == UNION {[1..len -> S] : len \in 1..n}

\* Cypher string comparison: lexicographic on the characters ("10" < "2")
RECURSIVE LexLess(_, _)
LexLess(a, b) ==
    IF b = <<>> THEN FALSE
    ELSE IF a = <<>> THEN TRUE
    ELSE IF Head(a) # Head(b) THEN Head(a) < Head(b)
    ELSE LexLess(Tail(a), Tail(b))

----------------------------------------------------------------------------
(* The graph store. A node is <<label, key, copy>>: two nodes with equal    *)
(* label and key are two nodes (copy 1, 2, ...). nodes maps each node to    *)
(* its properties; edges is the bag of relationships, each                  *)
(* [type, src, dst, reason] (reason <<>> when the type carries none).       *)

EmptyStore == [nodes |-> <<>>, edges |-> EmptyBag]

NodeIds(g) == DOMAIN g.nodes

\* all nodes matching a label and a key map
MatchNodes(g, label, key) ==
    {n \in NodeIds(g) : n[1] = label /\ n[2] = key}

EdgesOf(g, type) == {e \in BagToSet(g.edges) : e.type = type}

MatchEdges(g, type, src, dst) ==
    {e \in EdgesOf(g, type) : e.src = src /\ e.dst = dst}

\* number of relationships among the given ones
RECURSIVE EdgeCount(_, _)
EdgeCount(g, S) ==
    IF S = {} THEN 0
    ELSE LET e == CHOOSE x \in S : TRUE
         IN  CopiesIn(e, g.edges) + EdgeCount(g, S \ {e})

\* CREATE of a node: always a new node
CreateNode(g, label, key) ==
    LET n == <<label, key, Cardinality(MatchNodes(g, label, key)) + 1>>
    IN  [store |-> [g EXCEPT !.nodes = @ @@ (n :> <<>>)], node |-> n]

\* a MERGE that never matches (CREATE in its place)
AlwaysCreateNode(g, label, key) == CreateNode(g, label, key)

\* MERGE (n:Label {key}): bind the existing node, create it when absent
MergeNode(g, label, key) ==
    IF MatchNodes(g, label, key) # {}
    THEN [store |-> g,
          node  |-> CHOOSE n \in MatchNodes(g, label, key) :
                        \A m \in MatchNodes(g, label, key) : n[3] <= m[3]]
    ELSE CreateNode(g, label, key)

\* SET n.a = ..., n.b = ...: overwrite the listed properties
SetProps(g, n, props) == [g EXCEPT !.nodes[n] = props]

\* CREATE (a)-[:TYPE {reason}]->(b)
CreateEdge(g, type, src, dst, reason) ==
    [g EXCEPT !.edges =
        @ (+) SetToBag({[type |-> type, src |-> src, dst |-> dst, reason |-> reason]})]

\* MERGE (a)-[:TYPE {reason}]->(b) with both ends bound
MergeEdge(g, type, src, dst, reason) ==
    IF \E e \in MatchEdges(g, type, src, dst) : e.reason = reason
    THEN g
    ELSE CreateEdge(g, type, src, dst, reason)

----------------------------------------------------------------------------
(* Finding records (findings_data.json) *)

MaxBatch == 3           \* records in one findings_data.json

\* a || b of JavaScript on values that are Null or non-empty text
Or(a, b) == IF a = Null \/ a = "" THEN b ELSE a

\* datetime($timestamp): ISO-8601 text becomes a temporal value, null stays
\* null, any other text is a conversion error
IsoTexts == {"2025-07-01T10:00:00Z", "2025-07-02T11:30:00Z"}
DatetimeError == [datetime |-> "error"]
Datetime(t) ==
    IF t = Null \/ t \in IsoTexts THEN [datetime |-> t] ELSE DatetimeError

MkVulnerability(cwe, vector, title) ==
    [cwe_id |-> cwe, owasp_id |-> "A03:2021", title |-> title,
     description |-> "d", severity |-> "HIGH", vector |-> vector]

AssetUrl     == [type |-> "api", url |-> "https://a", path |-> Null, image |-> Null, service |-> "web"]
AssetPath    == [type |-> "file", url |-> Null, path |-> "/srv/app", image |-> Null, service |-> Null]
AssetNowhere == [type |-> "api", url |-> Null, path |-> Null, image |-> Null, service |-> "web"]

Lodash == [name |-> "lodash", version |-> "4.17.20"]

MkFinding(id, scanner, ts, vuln, asset, pkg) ==
    [finding_id |-> id, scanner |-> scanner, scan_id |-> "s1", timestamp |-> ts,
     vulnerability |-> vuln, asset |-> asset, package |-> pkg]

\* the finding ids of the fixture and their characters (digit codes)
Id1  == "1"
Id10 == "10"
Id2  == "2"
FindingIds == {Id1, Id10, Id2}
IdChars(id) == IF id = Id1 THEN <<1>> ELSE IF id = Id10 THEN <<1, 0>> ELSE <<2>>

NoPackage == <<>>       \* the record has no "package" field

Sqli == MkVulnerability("CWE-89", "network", "SQL injection")
Xss  == MkVulnerability("CWE-79", "network", "XSS")

Records ==
    { MkFinding(Id1,  "zap",    "2025-07-01T10:00:00Z", Sqli, AssetUrl, <<Lodash>>),
      MkFinding(Id1,  "nuclei", "2025-07-02T11:30:00Z",
                MkVulnerability("CWE-89", "local", "SQLi"), AssetUrl, NoPackage),
      MkFinding(Id10, "trivy",  "2025-07-01T10:00:00Z", Xss, AssetPath, <<Lodash>>),
      MkFinding(Id2,  "zap",    "2025-07-01T10:00:00Z", Sqli, AssetPath, NoPackage),
      MkFinding(Id10, "zap",    "2025-07-02T11:30:00Z", Sqli, AssetUrl, NoPackage),
      MkFinding(Id2,  "zap",    "2025-07-01T10:00:00Z", Xss, AssetNowhere, <<Lodash>>),
      MkFinding(Id1,  "zap",    "yesterday", Xss, AssetUrl, NoPackage) }

Batches == SeqsUpTo(Records, MaxBatch)

----------------------------------------------------------------------------
(* The two Cypher statements of ingestFindings *)

\* the parameter map of the first statement
FindingParams(r) ==
    [finding_id |-> r.finding_id, scanner |-> r.scanner, scan_id |-> r.scan_id,
     timestamp |-> r.timestamp,
     cwe_id |-> r.vulnerability.cwe_id, owasp_id |-> r.vulnerability.owasp_id,
     title |-> r.vulnerability.title, description |-> r.vulnerability.description,
     severity |-> r.vulnerability.severity, vector |-> r.vulnerability.vector,
     type |-> r.asset.type,
     url |-> Or(Or(r.asset.url, r.asset.path), r.asset.image),
     service |-> Or(r.asset.service, "unknown")]

\* the store rejects the first statement: MERGE on a null key, or datetime()
\* of a text that is no ISO-8601 date
FindingQueryRejected(p) ==
    \/ p.finding_id = Null \/ p.cwe_id = Null \/ p.url = Null
    \/ Datetime(p.timestamp) = DatetimeError

FindingQuery(g, p) ==
    LET f  == MergeNode(g, "Finding", <<p.finding_id>>)
        g1 == SetProps(f.store, f.node,
                       [scanner |-> p.scanner, scan_id |-> p.scan_id,
                        timestamp |-> Datetime(p.timestamp)])
        v  == MergeNode(g1, "Vulnerability", <<p.cwe_id>>)
        g2 == SetProps(v.store, v.node,
                       [title |-> p.title, description |-> p.description,
                        severity |-> p.severity, vector |-> p.vector,
                        owasp_id |-> p.owasp_id])
        a  == MergeNode(g2, "Asset", <<p.url>>)
        g3 == SetProps(a.store, a.node, [type |-> p.type, service |-> p.service])
        g4 == MergeEdge(g3, "HAS_VULNERABILITY", f.node, v.node, <<>>)
    IN  MergeEdge(g4, "AFFECTS", f.node, a.node, <<>>)

PackageQueryRejected(pkg) == pkg.name = Null \/ pkg.version = Null

\* MERGE (p:Package {..}) MERGE (f)-[:USES_PACKAGE]->(p): f is not bound in
\* this statement, so the second MERGE matches any node that already uses p
\* and otherwise creates a fresh node without label for f
PackageQuery(g, pkg) ==
    LET p  == MergeNode(g, "Package", <<pkg.name, pkg.version>>)
        g1 == p.store
    IN  IF \E e \in EdgesOf(g1, "USES_PACKAGE") : e.dst = p.node
        THEN g1
        ELSE LET f == CreateNode(g1, "", <<>>)
             IN  CreateEdge(f.store, "USES_PACKAGE", f.node, p.node, <<>>)

----------------------------------------------------------------------------
(* ingestFindings: one transaction per record *)

NoTx == <<>>            \* no transaction is open

Outcomes == {"ok", "fail"}      \* of one call to the driver: done, or rejected

\* a statement run outside the transaction (session.run) is committed at once
RunAutoCommit(st, t, q) == [store |-> q, tx |-> q]

\* tx.run: the statement acts on the transaction's view, not on the
\* committed graph
RunInTx(st, t, q) == [store |-> st, tx |-> q]

\* a rollback that leaves the statements of the transaction in the graph
AfterRollbackKeepingWrites(st, t) == t

\* tx.commit / tx.rollback: the committed graph afterwards
AfterCommit(st, t) == t
AfterRollback(st, t) == st

CurrentRecord == findings[idx]

\* the chat page as first rendered, no message sent
ChatIdle ==
    /\ input = ""
    /\ messages = <<>>
    /\ loading = FALSE
    /\ agentSteps = <<>>
    /\ spc = "idle"
    /\ steps = <<>>
    /\ buffer = <<>>
    /\ body = <<>>
    /\ pos = 0
    /\ calls = <<>>

\* no trace page is open
TraceIdle ==
    /\ envelope = <<>>
    /\ agentic = <<>>
    /\ frontend = <<>>

\* enrichGraph is not running
EnrichIdle ==
    /\ epc = "idle"
    /\ records = EmptyBag
    /\ asked = EmptyBag
    /\ row = <<>>
    /\ agentReply = <<>>
    /\ elog = <<>>

IngestInit ==
    /\ EnrichIdle
    /\ ChatIdle
    /\ TraceIdle
    /\ store = EmptyStore
    /\ findings \in Batches
    /\ idx = 0
    /\ ipc = "loop"
    /\ tx = NoTx
    /\ err = Null
    /\ ilog = <<>>

\* for (const finding of findings) { ... const tx = session.beginTransaction()
BeginTransaction ==
    /\ ipc = "loop"
    /\ idx < Len(findings)
    /\ idx' = idx + 1
    /\ tx' = <<store>>
    /\ err' = Null
    /\ ipc' = "query1"
    /\ UNCHANGED <<store, findings, ilog>>
    /\ UNCHANGED <<enrichVars, chatVars, traceVars>>

\* await tx.run(MERGE (f:Finding ...) ...)
RunFindingQuery ==
    /\ ipc = "query1"
    /\ \E net \in Outcomes :
        LET p == FindingParams(CurrentRecord)
        IN  IF net = "fail" \/ FindingQueryRejected(p)
            THEN /\ ipc' = "catch"
                 /\ err' = "query1"
                 /\ UNCHANGED <<store, tx>>
            ELSE LET r == RunInTx(store, tx[1], FindingQuery(tx[1], p))
                 IN  /\ store' = r.store
                     /\ tx' = <<r.tx>>
                     /\ ipc' = IF CurrentRecord.package # NoPackage
                               THEN "query2" ELSE "commit"
                     /\ err' = err
    /\ UNCHANGED <<findings, idx, ilog>>
    /\ UNCHANGED <<enrichVars, chatVars, traceVars>>

\* if (pkg) { await tx.run(MERGE (p:Package ...) ...) }
RunPackageQuery ==
    /\ ipc = "query2"
    /\ \E net \in Outcomes :
        LET pkg == CurrentRecord.package[1]
        IN  IF net = "fail" \/ PackageQueryRejected(pkg)
            THEN /\ ipc' = "catch"
                 /\ err' = "query2"
                 /\ UNCHANGED <<store, tx>>
            ELSE LET r == RunInTx(store, tx[1], PackageQuery(tx[1], pkg))
                 IN  /\ store' = r.store
                     /\ tx' = <<r.tx>>
                     /\ ipc' = "commit"
                     /\ err' = err
    /\ UNCHANGED <<findings, idx, ilog>>
    /\ UNCHANGED <<enrichVars, chatVars, traceVars>>

\* await tx.commit()
Commit ==
    /\ ipc = "commit"
    /\ \E net \in Outcomes :
        IF net = "fail"
        THEN /\ ipc' = "catch"
             /\ err' = "commit"
             /\ UNCHANGED <<store, tx, ilog>>
        ELSE /\ store' = AfterCommit(store, tx[1])
             /\ tx' = NoTx
             /\ ilog' = Append(ilog, "committed")
             /\ ipc' = "loop"
             /\ err' = err
    /\ UNCHANGED <<findings, idx>>
    /\ UNCHANGED <<enrichVars, chatVars, traceVars>>

\* catch (e) { console.error(...); await tx.rollback() }: a rejected
\* rollback is not caught and leaves ingestFindings
Rollback ==
    /\ ipc = "catch"
    /\ \E net \in Outcomes :
        /\ store' = AfterRollback(store, tx[1])
        /\ tx' = NoTx
        /\ IF net = "fail"
           THEN /\ ipc' = "raised"
                /\ err' = "rollback"
                /\ ilog' = Append(ilog, "aborted")
           ELSE /\ ipc' = "loop"
                /\ err' = err
                /\ ilog' = Append(ilog, "rolledback:" \o err)
    /\ UNCHANGED <<findings, idx>>
    /\ UNCHANGED <<enrichVars, chatVars, traceVars>>

\* await session.close(); console.log("Findings ingested successfully")
CloseSession ==
    /\ ipc = "loop"
    /\ idx = Len(findings)
    /\ \E net \in Outcomes :
        IF net = "fail"
        THEN ipc' = "raised" /\ err' = "close"
        ELSE ipc' = "done" /\ err' = err
    /\ UNCHANGED <<store, findings, idx, tx, ilog>>
    /\ UNCHANGED <<enrichVars, chatVars, traceVars>>

IngestNext ==
    \/ BeginTransaction
    \/ RunFindingQuery
    \/ RunPackageQuery
    \/ Commit
    \/ Rollback
    \/ CloseSession

SpecIngest == IngestInit /\ [][IngestNext]_vars

----------------------------------------------------------------------------
(* Texts of the oracle: sequences of characters *)

LowerOf(c) ==
    CASE c = "A" -> "a" [] c = "B" -> "b" [] c = "C" -> "c" [] c = "D" -> "d"
      [] c = "E" -> "e" [] c = "F" -> "f" [] c = "G" -> "g" [] c = "H" -> "h"
      [] c = "I" -> "i" [] c = "J" -> "j" [] c = "K" -> "k" [] c = "L" -> "l"
      [] c = "M" -> "m" [] c = "N" -> "n" [] c = "O" -> "o" [] c = "P" -> "p"
      [] c = "Q" -> "q" [] c = "R" -> "r" [] c = "S" -> "s" [] c = "T" -> "t"
      [] c = "U" -> "u" [] c = "V" -> "v" [] c = "W" -> "w" [] c = "X" -> "x"
      [] c = "Y" -> "y" [] c = "Z" -> "z" [] OTHER -> c

\* a text left as it is
KeepCase(t) == t

\* String.prototype.toLowerCase
ToLowerCase(t) == [i \in 1..Len(t) |-> LowerOf(t[i])]

\* String.prototype.includes
Includes(t, sub) ==
    \E i \in 0..(Len(t) - Len(sub)) : \A j \in 1..Len(sub) : t[i + j] = sub[j]

\* agentReply.toLowerCase().includes("yes")
Affirmative(reply) == Includes(ToLowerCase(reply), <<"y", "e", "s">>)

YesShared ==
    <<"Y", "e", "s", ",", " ", "t", "h", "e", "y", " ", "s", "h", "a", "r", "e", " ",
      "a", " ", "r", "o", "o", "t", " ", "c", "a", "u", "s", "e">>
NoRelation ==
    <<"N", "o", " ", "r", "e", "l", "a", "t", "i", "o", "n", " ", "f", "o", "u", "n",
      "d">>
NoEyesOnly ==
    <<"N", "O", " ", "-", " ", "e", "y", "e", "s", " ", "o", "n", "l", "y">>
NoResponse ==
    <<"N", "o", " ", "r", "e", "s", "p", "o", "n", "s", "e", " ", "f", "r", "o", "m",
      " ", "a", "g", "e", "n", "t">>

\* response.data.choices[0].message.content as the service may send it
OracleContents == {YesShared, NoRelation, NoEyesOnly, <<>>}

\* callAgent: return response.data.choices[0].message.content || "No response from agent"
CallAgentResult(content) == IF content = <<>> THEN NoResponse ELSE content

----------------------------------------------------------------------------
(* enrichGraph *)

Limit == 5              \* LIMIT 5 of the candidate query
MaxNodes == 6           \* ingestion stops committing at this many nodes

\* the pattern (f:Finding)-[:HAS_VULNERABILITY]->(v:Vulnerability)
HasVulnerability(g) ==
    {e \in EdgesOf(g, "HAS_VULNERABILITY") :
        e.src[1] = "Finding" /\ e.dst[1] = "Vulnerability"}

IdOf(e) == e.src[2][1]
VectorOf(g, e) == g.nodes[e.dst].vector

\* f1.id <> f2.id in the place of f1.id < f2.id
IdDiffers(a, b) == a # b

\* a.id < b.id of Cypher on two text ids
IdLess(a, b) == LexLess(IdChars(a), IdChars(b))

\* WHERE f1.id < f2.id AND v1.vector = v2.vector (null = null is not true)
CandidateMatches(g) ==
    {m \in HasVulnerability(g) \X HasVulnerability(g) :
        /\ m[1] # m[2]
        /\ IdLess(IdOf(m[1]), IdOf(m[2]))
        /\ VectorOf(g, m[1]) # Null
        /\ VectorOf(g, m[1]) = VectorOf(g, m[2])}

\* RETURN f1.id AS id1, f2.id AS id2, v1.vector AS vector
RowOf(g, m) == [id1 |-> IdOf(m[1]), id2 |-> IdOf(m[2]), vector |-> VectorOf(g, m[1])]

\* the candidate query without its LIMIT clause
RowCountOfAllMatches(g) == Cardinality(CandidateMatches(g))

RowCount(g) == IF Cardinality(CandidateMatches(g)) < Limit
               THEN Cardinality(CandidateMatches(g)) ELSE Limit

\* the rows of a set of matches, each as often as matches yield it
RowsOf(g, kept) ==
    [r \in {RowOf(g, m) : m \in kept} |-> Cardinality({m \in kept : RowOf(g, m) = r})]

\* LIMIT 5 without ORDER BY: any 5 of the matches (all of them when there
\* are fewer); the for loop may meet them in any order
CandidateResults(g) ==
    {RowsOf(g, kept) :
        kept \in {S \in SUBSET CandidateMatches(g) : Cardinality(S) = RowCount(g)}}

\* MATCH (f1:Finding {id: $id1}), (f2:Finding {id: $id2})
\* MERGE (f1)-[:RELATED_TO {reason: $reason}]->(f2)
RECURSIVE MergeAll(_, _, _)
MergeAll(g, ends, reason) ==
    IF ends = {} THEN g
    ELSE LET m == CHOOSE x \in ends : TRUE
         IN  MergeAll(MergeEdge(g, "RELATED_TO", m[1], m[2], reason), ends \ {m}, reason)

RelatedQuery(g, id1, id2, reason) ==
    MergeAll(g, MatchNodes(g, "Finding", <<id1>>) \X MatchNodes(g, "Finding", <<id2>>), reason)

\* a for loop that may take a row again
AllRecords == records

\* the rows of result.records the for loop has not taken yet
Remaining == records (-) asked

IngestIdle ==
    /\ findings = <<>>
    /\ idx = 0
    /\ ipc = "done"
    /\ tx = NoTx
    /\ err = Null
    /\ ilog = <<>>

EnrichInit ==
    /\ IngestIdle
    /\ ChatIdle
    /\ TraceIdle
    /\ store = EmptyStore
    /\ epc = "query"
    /\ records = EmptyBag
    /\ asked = EmptyBag
    /\ row = <<>>
    /\ agentReply = <<>>
    /\ elog = <<>>

\* the transaction of one record as the enrichment session sees it: nothing
\* until its commit, then both statements at once
IngestOne(g, r) ==
    LET g1 == FindingQuery(g, FindingParams(r))
    IN  IF r.package = NoPackage THEN g1 ELSE PackageQuery(g1, r.package[1])

\* a run of ingestFindings, before or during enrichGraph, commits a record
RecordCommitted ==
    /\ Cardinality(NodeIds(store)) < MaxNodes
    /\ \E r \in Records :
        /\ ~FindingQueryRejected(FindingParams(r))
        /\ r.package # NoPackage => ~PackageQueryRejected(r.package[1])
        /\ store' = IngestOne(store, r)
    /\ UNCHANGED enrichVars
    /\ UNCHANGED <<ingestVars, chatVars, traceVars>>

\* const result = await session.run(MATCH ... LIMIT 5)
CandidateQuery ==
    /\ epc = "query"
    /\ \E net \in Outcomes :
        IF net = "fail"
        THEN epc' = "catch" /\ records' = records
        ELSE epc' = "loop" /\ records' \in CandidateResults(store)
    /\ UNCHANGED <<store, asked, row, agentReply, elog>>
    /\ UNCHANGED <<ingestVars, chatVars, traceVars>>

\* for (const record of result.records) { ... await callAgent(prompt)
CallAgent ==
    /\ epc = "loop"
    /\ \E r \in BagToSet(Remaining) :
        /\ row' = <<r>>
        /\ asked' = asked (+) SetToBag({r})
    /\ \E net \in Outcomes :
        IF net = "fail"
        THEN epc' = "catch" /\ agentReply' = agentReply
        ELSE /\ epc' = "classify"
             /\ \E content \in OracleContents : agentReply' = CallAgentResult(content)
    /\ UNCHANGED <<store, records, elog>>
    /\ UNCHANGED <<ingestVars, chatVars, traceVars>>

\* if (agentReply.toLowerCase().includes("yes")) { await session.run(MERGE ...) }
LinkIfAffirmative ==
    /\ epc = "classify"
    /\ IF Affirmative(agentReply)
       THEN \E net \in Outcomes :
               IF net = "fail"
               THEN epc' = "catch" /\ UNCHANGED <<store, elog>>
               ELSE /\ store' = RelatedQuery(store, row[1].id1, row[1].id2, agentReply)
                    /\ elog' = Append(elog, "Linked")
                    /\ epc' = "loop"
       ELSE epc' = "loop" /\ UNCHANGED <<store, elog>>
    /\ UNCHANGED <<records, asked, row, agentReply>>
    /\ UNCHANGED <<ingestVars, chatVars, traceVars>>

\* console.log("Graph enrichment complete")
Complete ==
    /\ epc = "loop"
    /\ Remaining = EmptyBag
    /\ elog' = Append(elog, "Graph enrichment complete")
    /\ epc' = "finally"
    /\ UNCHANGED <<store, records, asked, row, agentReply>>
    /\ UNCHANGED <<ingestVars, chatVars, traceVars>>

\* catch (error) { console.error("Error enriching graph:", error) }
CatchError ==
    /\ epc = "catch"
    /\ elog' = Append(elog, "Error enriching graph")
    /\ epc' = "finally"
    /\ UNCHANGED <<store, records, asked, row, agentReply>>
    /\ UNCHANGED <<ingestVars, chatVars, traceVars>>

\* finally { await session.close() }
Finally ==
    /\ epc = "finally"
    /\ \E net \in Outcomes : epc' = IF net = "fail" THEN "raised" ELSE "closed"
    /\ UNCHANGED <<store, records, asked, row, agentReply, elog>>
    /\ UNCHANGED <<ingestVars, chatVars, traceVars>>

\* the script is started again
RunAgain ==
    /\ epc \in {"closed", "raised"}
    /\ epc' = "query"
    /\ records' = EmptyBag
    /\ asked' = EmptyBag
    /\ row' = <<>>
    /\ agentReply' = <<>>
    /\ elog' = <<>>
    /\ UNCHANGED store
    /\ UNCHANGED <<ingestVars, chatVars, traceVars>>

EnrichNext ==
    \/ RecordCommitted
    \/ CandidateQuery
    \/ CallAgent
    \/ LinkIfAffirmative
    \/ Complete
    \/ CatchError
    \/ Finally
    \/ RunAgain

SpecEnrich == EnrichInit /\ [][EnrichNext]_vars

----------------------------------------------------------------------------
(* enrichGraph: one run over a populated graph, while a scanner reports     *)
(* finding 1 again                                                          *)

SqliLocal == MkVulnerability("CWE-89", "local", "SQL injection")

\* the record of one finding with one vulnerability on the shared asset
Scan(id, vuln) ==
    MkFinding(id, "zap", "2025-07-01T10:00:00Z", vuln, AssetUrl, NoPackage)

\* a run of ingestFindings over a whole batch, every transaction committed:
\* h is the graph once the first record is committed, and the rest of the
\* batch is written into h
RECURSIVE IngestAll(_, _)
IngestAll(g, rs) ==
    IF rs = <<>>
    THEN g
    ELSE CHOOSE last \in {IngestAll(h, Tail(rs)) : h \in {IngestOne(g, Head(rs))}} :
            TRUE

\* two findings with one vulnerability each; three findings, two of them
\* with both vulnerabilities (eight matches of the candidate pattern)
SparseBatch == <<Scan(Id1, Sqli), Scan(Id10, Xss)>>
FullBatch ==
    <<Scan(Id1, Sqli), Scan(Id1, Xss), Scan(Id10, Sqli),
      Scan(Id10, Xss), Scan(Id2, Sqli)>>
PopulatedStores == {IngestAll(EmptyStore, b) : b \in {SparseBatch, FullBatch}}

\* the later reports of finding 1: CWE-89 with either vector
Rescans == {Scan(Id1, Sqli), Scan(Id1, SqliLocal)}

EnrichRunInit ==
    /\ IngestIdle
    /\ ChatIdle
    /\ TraceIdle
    /\ store \in PopulatedStores
    /\ epc = "query"
    /\ records = EmptyBag
    /\ asked = EmptyBag
    /\ row = <<>>
    /\ agentReply = <<>>
    /\ elog = <<>>

\* ingestFindings commits a later report while enrichGraph runs
Rescanned ==
    /\ epc \notin {"closed", "raised"}
    /\ \E r \in Rescans : store' = IngestOne(store, r)
    /\ UNCHANGED enrichVars
    /\ UNCHANGED <<ingestVars, chatVars, traceVars>>

EnrichRunNext ==
    \/ Rescanned
    \/ CandidateQuery
    \/ CallAgent
    \/ LinkIfAffirmative
    \/ Complete
    \/ CatchError
    \/ Finally

SpecEnrichRun == EnrichRunInit /\ [][EnrichRunNext]_vars

----------------------------------------------------------------------------
(* ingestFindings and enrichGraph at work on one store. A statement of     *)
(* enrichGraph that writes waits for the open transaction of               *)
(* ingestFindings (both lock the Finding nodes they touch); its reads see  *)
(* the committed graph.                                                    *)

Unreachable == MkFinding(Id2, "zap", "2025-07-01T10:00:00Z", Sqli, AssetNowhere, NoPackage)

StoreBatches ==
    {<<Scan(Id1, Sqli),
       MkFinding(Id10, "trivy", "2025-07-01T10:00:00Z", Xss, AssetPath, <<Lodash>>),
       Scan(Id1, SqliLocal)>>,
     <<Scan(Id1, Sqli), Unreachable, Scan(Id2, Sqli)>>}

StoreInit ==
    /\ ChatIdle
    /\ TraceIdle
    /\ store = EmptyStore
    /\ findings \in StoreBatches
    /\ idx = 0
    /\ ipc = "loop"
    /\ tx = NoTx
    /\ err = Null
    /\ ilog = <<>>
    /\ epc = "query"
    /\ records = EmptyBag
    /\ asked = EmptyBag
    /\ row = <<>>
    /\ agentReply = <<>>
    /\ elog = <<>>

\* the MERGE of enrichGraph once no transaction holds the nodes
LinkWhenUnlocked == tx = NoTx /\ LinkIfAffirmative

StoreNext ==
    \/ BeginTransaction
    \/ RunFindingQuery
    \/ RunPackageQuery
    \/ Commit
    \/ Rollback
    \/ CloseSession
    \/ CandidateQuery
    \/ CallAgent
    \/ LinkWhenUnlocked
    \/ Complete
    \/ CatchError
    \/ Finally
    \/ RunAgain

SpecStore == StoreInit /\ [][StoreNext]_vars

----------------------------------------------------------------------------
(* The streamed reply: a text is a sequence of characters. The characters  *)
(* of the prefix and the newline are single characters; a member of a JSON *)
(* payload (a step name, a content, a trace id) is kept whole.             *)

MaxLines == 2

DataPrefix == <<"d", "a", "t", "a", ":", " ">>
Newline == "\n"

StepNames == {"Thought", "Final Answer"}
StepContents == {"checking", "SQL injection confirmed"}
TraceIds == {"t1"}

\* the step objects the backend serialises
ThoughtStep == [step |-> "Thought", content |-> "checking", trace_id |-> "t1"]
FinalStep == [step |-> "Final Answer", content |-> "SQL injection confirmed",
              trace_id |-> Null]

\* the JSON text of a step object; a step without trace_id has no such member
Stringify(s) ==
    <<"{", s.step, s.content>>
        \o (IF s.trace_id = Null THEN <<>> ELSE <<s.trace_id>>)
        \o <<"}">>

\* JSON.parse(text): <<the object>>, or <<>> when it throws
JSONparse(t) ==
    IF /\ Len(t) \in {4, 5}
       /\ t[1] = "{"
       /\ t[2] \in StepNames
       /\ t[3] \in StepContents
       /\ Len(t) = 5 => t[4] \in TraceIds
       /\ t[Len(t)] = "}"
    THEN <<[step |-> t[2], content |-> t[3],
            trace_id |-> IF Len(t) = 5 THEN t[4] ELSE Null]>>
    ELSE <<>>

\* the lines a reply is made of: two events, an event whose JSON is broken,
\* a blank line, a comment line
EventLine(s) == DataPrefix \o Stringify(s)
BrokenLine == DataPrefix \o <<"{", "Thought", "checking">>
BlankLine == <<>>
CommentLine == <<":">>
EventLines == {EventLine(ThoughtStep), EventLine(FinalStep), BrokenLine}
Lines == EventLines \cup {BlankLine, CommentLine}

RECURSIVE Terminated(_)
Terminated(ls) ==
    IF ls = <<>> THEN <<>>
    ELSE Head(ls) \o <<Newline>> \o Terminated(Tail(ls))

Bodies == {<<>>} \cup {Terminated(ls) : ls \in SeqsUpTo(Lines, MaxLines)}

\* line.startsWith(prefix)
StartsWith(line, prefix) ==
    /\ Len(line) >= Len(prefix)
    /\ SubSeq(line, 1, Len(prefix)) = prefix

\* line.slice(n)
Slice(line, n) == SubSeq(line, n + 1, Len(line))

\* text.split(sep)
RECURSIVE Split(_, _)
Split(t, sep) ==
    IF \A i \in 1..Len(t) : t[i] # sep
    THEN <<t>>
    ELSE LET i == CHOOSE i \in 1..Len(t) :
                      t[i] = sep /\ \A j \in 1..(i - 1) : t[j] # sep
         IN  <<SubSeq(t, 1, i - 1)>> \o Split(SubSeq(t, i + 1, Len(t)), sep)

\* the loop without its try/catch: a payload that does not parse ends it
RECURSIVE ForEachLineAborting(_, _, _)
ForEachLineAborting(lines, pushed, newBuffer) ==
    IF lines = <<>>
    THEN [steps |-> pushed, buffer |-> newBuffer]
    ELSE LET line == Head(lines)
         IN  IF StartsWith(line, DataPrefix)
             THEN IF JSONparse(Slice(line, 6)) = <<>>
                  THEN [steps |-> pushed, buffer |-> newBuffer]
                  ELSE ForEachLineAborting(Tail(lines),
                           pushed \o JSONparse(Slice(line, 6)), newBuffer)
             ELSE ForEachLineAborting(Tail(lines), pushed, newBuffer \o line)

\* for (const line of lines) { ... }: the steps pushed and the new buffer
RECURSIVE ForEachLine(_, _, _)
ForEachLine(lines, pushed, newBuffer) ==
    IF lines = <<>>
    THEN [steps |-> pushed, buffer |-> newBuffer]
    ELSE LET line == Head(lines)
         IN  IF StartsWith(line, DataPrefix)
             THEN ForEachLine(Tail(lines),
                              pushed \o JSONparse(Slice(line, 6)), newBuffer)
             ELSE ForEachLine(Tail(lines), pushed, newBuffer \o line)

\* one pass that hands over the steps of the chunk newest first
OnChunkNewestFirst(buf, chunk) ==
    LET r == ForEachLine(Split(buf \o chunk, Newline), <<>>, <<>>)
        n == Len(r.steps)
    IN  [steps |-> [i \in 1..n |-> r.steps[n + 1 - i]], buffer |-> r.buffer]

\* one pass of the then-callback of reader.read() over a decoded chunk
OnChunk(buf, chunk) == ForEachLine(Split(buf \o chunk, Newline), <<>>, <<>>)

\* `${s.step}: ${s.content}`
Render(s) == s.step \o ": " \o s.content

\* parts.join(sep)
RECURSIVE Join(_, _)
Join(parts, sep) ==
    IF parts = <<>> THEN ""
    ELSE IF Len(parts) = 1 THEN parts[1]
    ELSE parts[1] \o sep \o Join(Tail(parts), sep)

AggregateByLine(ss) == Join([i \in 1..Len(ss) |-> Render(ss[i])], "\n")

\* steps.map(...).join("\n\n")
Aggregate(ss) == Join([i \in 1..Len(ss) |-> Render(ss[i])], "\n\n")

\* the trace_id of the last step that carries one
RECURSIVE LastKnownTraceId(_)
LastKnownTraceId(ss) ==
    IF ss = <<>> THEN Null
    ELSE IF ss[Len(ss)].trace_id # Null THEN ss[Len(ss)].trace_id
    ELSE LastKnownTraceId(SubSeq(ss, 1, Len(ss) - 1))

\* steps.length > 0 ? steps[steps.length - 1].trace_id : undefined
LastTraceId(ss) == IF Len(ss) > 0 THEN ss[Len(ss)].trace_id ELSE Null

----------------------------------------------------------------------------
(* sendMessage: one call, from the page as first rendered *)

Inputs == {"", "   ", "is /login injectable?"}

\* input.trim()
Trim(t) == IF t = "   " THEN "" ELSE t

ChatInit ==
    /\ IngestIdle
    /\ EnrichIdle
    /\ TraceIdle
    /\ ChatIdle
    /\ store = EmptyStore

\* onChange of the input box
SetInput ==
    /\ spc = "idle"
    /\ \E t \in Inputs : input' = t
    /\ UNCHANGED <<messages, loading, agentSteps, spc, steps, buffer, body, pos>>
    /\ UNCHANGED <<store, ingestVars, enrichVars, traceVars, calls>>

\* sendMessage up to the fetch call; returns at once on a blank input
SendMessage ==
    /\ spc = "idle"
    /\ Trim(input) # ""
    /\ messages' = Append(messages,
                          [role |-> "user", content |-> input,
                           external_trace_id |-> Null])
    /\ input' = ""
    /\ loading' = TRUE
    /\ agentSteps' = <<>>
    /\ steps' = <<>>
    /\ spc' = "fetching"
    /\ UNCHANGED <<buffer, body, pos>>
    /\ UNCHANGED <<store, ingestVars, enrichVars, traceVars, calls>>

\* fetch rejects: .catch(() => setLoading(false))
FetchRejected ==
    /\ spc = "fetching"
    /\ loading' = FALSE
    /\ spc' = "fetch-failed"
    /\ UNCHANGED <<input, messages, agentSteps, steps, buffer, body, pos>>
    /\ UNCHANGED <<store, ingestVars, enrichVars, traceVars, calls>>

\* .then((response) => { if (!response.body) { setLoading(false); return }
NoBody ==
    /\ spc = "fetching"
    /\ loading' = FALSE
    /\ spc' = "no-body"
    /\ UNCHANGED <<input, messages, agentSteps, steps, buffer, body, pos>>
    /\ UNCHANGED <<store, ingestVars, enrichVars, traceVars, calls>>

\* ... const reader = response.body.getReader(); let buffer = ""; read()
GetReader ==
    /\ spc = "fetching"
    /\ \E t \in Bodies : body' = t
    /\ pos' = 0
    /\ buffer' = <<>>
    /\ spc' = "reading"
    /\ UNCHANGED <<input, messages, loading, agentSteps, steps>>
    /\ UNCHANGED <<store, ingestVars, enrichVars, traceVars, calls>>

\* reader.read() resolves with a chunk, cut anywhere in what is left
ReadChunk ==
    /\ spc = "reading"
    /\ \E n \in 1..(Len(body) - pos) :
          LET r == OnChunk(buffer, SubSeq(body, pos + 1, pos + n))
          IN  /\ steps' = steps \o r.steps
              /\ agentSteps' = IF r.steps = <<>> THEN agentSteps ELSE steps'
              /\ buffer' = r.buffer
              /\ pos' = pos + n
    /\ UNCHANGED <<input, messages, loading, spc, body>>
    /\ UNCHANGED <<store, ingestVars, enrichVars, traceVars, calls>>

\* reader.read() resolves with done
ReadDone ==
    /\ spc = "reading"
    /\ pos = Len(body)
    /\ loading' = FALSE
    /\ messages' = Append(messages,
                          [role |-> "agent", content |-> Aggregate(steps),
                           external_trace_id |-> LastTraceId(steps)])
    /\ agentSteps' = <<>>
    /\ spc' = "done"
    /\ UNCHANGED <<input, steps, buffer, body, pos>>
    /\ UNCHANGED <<store, ingestVars, enrichVars, traceVars, calls>>

\* reader.read() rejects: the promise made inside read() has no handler
ReadRejected ==
    /\ spc = "reading"
    /\ spc' = "read-failed"
    /\ UNCHANGED <<input, messages, loading, agentSteps, steps, buffer, body, pos>>
    /\ UNCHANGED <<store, ingestVars, enrichVars, traceVars, calls>>

ChatNext ==
    \/ SetInput
    \/ SendMessage
    \/ FetchRejected
    \/ NoBody
    \/ GetReader
    \/ ReadChunk
    \/ ReadDone
    \/ ReadRejected

SpecChat == ChatInit /\ [][ChatNext]_vars

----------------------------------------------------------------------------
(* sendMessage: several calls on one page. The input box and the Send      *)
(* button stay enabled while a reply streams in, and sendMessage does not  *)
(* look at loading; steps and buffer are locals of each call.              *)

MaxCalls == 2
ChunkSize == 4

\* what one read of these calls delivers: ChunkSize characters, or all that
\* is left of the body
ChunkSizes(c) ==
    {n \in {ChunkSize, Len(c.body) - c.pos} : n >= 1 /\ n <= Len(c.body) - c.pos}

\* what the response bodies of these calls deliver
PageBodies ==
    {<<>>, Terminated(<<EventLine(ThoughtStep)>>), Terminated(<<EventLine(FinalStep)>>)}

\* the locals of a call that has just reached fetch
NewCall == [pc |-> "fetching", steps |-> <<>>, buffer |-> <<>>, body |-> <<>>, pos |-> 0]

\* the array every call pushes its steps to: that of the first call
StepsOfFirstCall(cs, i) == cs[1].steps

\* const steps = [] of call i
StepsOfCall(cs, i) == cs[i].steps

PageInit ==
    /\ IngestIdle
    /\ EnrichIdle
    /\ TraceIdle
    /\ ChatIdle
    /\ store = EmptyStore

pageRest == <<spc, steps, buffer, body, pos, store, ingestVars, enrichVars, traceVars>>

\* onChange of the input box, at any time
PageSetInput ==
    /\ \E t \in Inputs : input' = t
    /\ UNCHANGED <<messages, loading, agentSteps, calls>>
    /\ UNCHANGED pageRest

\* Enter or Send: sendMessage up to the fetch call
PageSendMessage ==
    /\ Len(calls) < MaxCalls
    /\ Trim(input) # ""
    /\ messages' = Append(messages,
                          [role |-> "user", content |-> input,
                           external_trace_id |-> Null])
    /\ input' = ""
    /\ loading' = TRUE
    /\ agentSteps' = <<>>
    /\ calls' = Append(calls, NewCall)
    /\ UNCHANGED pageRest

\* fetch of call i rejects: .catch(() => setLoading(false))
PageFetchRejected(i) ==
    /\ calls[i].pc = "fetching"
    /\ loading' = FALSE
    /\ calls' = [calls EXCEPT ![i].pc = "fetch-failed"]
    /\ UNCHANGED <<input, messages, agentSteps>>
    /\ UNCHANGED pageRest

\* the response of call i has no body
PageNoBody(i) ==
    /\ calls[i].pc = "fetching"
    /\ loading' = FALSE
    /\ calls' = [calls EXCEPT ![i].pc = "no-body"]
    /\ UNCHANGED <<input, messages, agentSteps>>
    /\ UNCHANGED pageRest

\* call i gets its reader
PageGetReader(i) ==
    /\ calls[i].pc = "fetching"
    /\ \E t \in PageBodies :
          calls' = [calls EXCEPT ![i].pc = "reading", ![i].body = t]
    /\ UNCHANGED <<input, messages, loading, agentSteps>>
    /\ UNCHANGED pageRest

\* reader.read() of call i resolves with a chunk
PageReadChunk(i) ==
    /\ calls[i].pc = "reading"
    /\ \E n \in ChunkSizes(calls[i]) :
          LET c == calls[i]
              r == OnChunk(c.buffer, SubSeq(c.body, c.pos + 1, c.pos + n))
              pushed == StepsOfCall(calls, i) \o r.steps
          IN  /\ calls' = [calls EXCEPT ![i].steps = pushed,
                                        ![i].buffer = r.buffer,
                                        ![i].pos = c.pos + n]
              /\ agentSteps' = IF r.steps = <<>> THEN agentSteps ELSE pushed
    /\ UNCHANGED <<input, messages, loading>>
    /\ UNCHANGED pageRest

\* reader.read() of call i resolves with done
PageReadDone(i) ==
    /\ calls[i].pc = "reading"
    /\ calls[i].pos = Len(calls[i].body)
    /\ loading' = FALSE
    /\ messages' = Append(messages,
                          [role |-> "agent",
                           content |-> Aggregate(StepsOfCall(calls, i)),
                           external_trace_id |-> LastTraceId(StepsOfCall(calls, i))])
    /\ agentSteps' = <<>>
    /\ calls' = [calls EXCEPT ![i].pc = "done"]
    /\ UNCHANGED input
    /\ UNCHANGED pageRest

\* reader.read() of call i rejects
PageReadRejected(i) ==
    /\ calls[i].pc = "reading"
    /\ calls' = [calls EXCEPT ![i].pc = "read-failed"]
    /\ UNCHANGED <<input, messages, loading, agentSteps>>
    /\ UNCHANGED pageRest

PageNext ==
    \/ PageSetInput
    \/ PageSendMessage
    \/ \E i \in DOMAIN calls : PageFetchRejected(i)
    \/ \E i \in DOMAIN calls : PageNoBody(i)
    \/ \E i \in DOMAIN calls : PageGetReader(i)
    \/ \E i \in DOMAIN calls : PageReadChunk(i)
    \/ \E i \in DOMAIN calls : PageReadDone(i)
    \/ \E i \in DOMAIN calls : PageReadRejected(i)

SpecChatPage == PageInit /\ [][PageNext]_vars

----------------------------------------------------------------------------
(* JSON values: [t, v] with t the kind of value. The text of a string is a *)
(* sequence of characters (a word is kept whole); an array is the sequence *)
(* of its elements; an object is the sequence of its <<key, value>>        *)
(* members.                                                                *)

MaxItems == 2

JNull == [t |-> "null", v |-> 0]
JUndefined == [t |-> "undefined", v |-> 0]
JBool(b) == [t |-> "bool", v |-> b]
JNum(n) == [t |-> "num", v |-> n]
JStr(s) == [t |-> "str", v |-> s]
JArr(a) == [t |-> "arr", v |-> a]
JObj(m) == [t |-> "obj", v |-> m]
Obj1(k, x) == JObj(<< <<k, x>> >>)
Obj2(k1, x1, k2, x2) == JObj(<< <<k1, x1>>, <<k2, x2>> >>)

\* typeof x === "object"
TypeofObject(x) == x.t \in {"null", "arr", "obj"}

\* Array.isArray(x)
IsArray(x) == x.t = "arr"

\* the value of x in a condition
Truthy(x) ==
    CASE x.t \in {"null", "undefined"} -> FALSE
      [] x.t = "bool" -> x.v
      [] x.t = "num" -> x.v # 0
      [] x.t = "str" -> x.v # <<>>
      [] OTHER -> TRUE

\* k in x raises a TypeError unless x is an object or an array
InThrows(x) == x.t \notin {"arr", "obj"}

\* k in x, for a key that is no index
In(k, x) == x.t = "obj" /\ \E i \in 1..Len(x.v) : x.v[i][1] = k

\* x.k raises a TypeError when x is null or undefined
GetThrows(x) == x.t \in {"null", "undefined"}

\* x.k, for a key that is no index and no built-in property
Get(x, k) ==
    IF In(k, x)
    THEN x.v[CHOOSE i \in 1..Len(x.v) :
                 x.v[i][1] = k /\ \A j \in (i + 1)..Len(x.v) : x.v[j][1] # k][2]
    ELSE JUndefined

\* x?.k
OptGet(x, k) == IF GetThrows(x) THEN JUndefined ELSE Get(x, k)

\* a[0]
First(a) == IF IsArray(a) /\ Len(a.v) > 0 THEN a.v[1] ELSE JUndefined

\* the values an upstream component may hand over
Found == JStr(<<"Found SQL injection">>)
EmptyText == JStr(<<>>)
Atoms == {JNull, JBool(TRUE), JNum(42), Found, EmptyText}

GenValues ==
    {JNull, Found, JObj(<<>>),
     Obj1("text", Found), Obj1("text", EmptyText),
     Obj1("message", Obj1("content", Found)), Obj1("message", JNull),
     Obj2("text", EmptyText, "message", Obj1("content", Found))}

GenerationsValues ==
    {JNull, JNum(42), JArr(<<>>), JArr(<<JNull>>), JArr(<<JArr(<<>>)>>)}
        \cup {JArr(<<JArr(<<g>>)>>) : g \in GenValues}

MsgValues == {JNull, Obj1("content", Found), Obj1("content", EmptyText)}

MessagesValues ==
    {JNull, JNum(42), JArr(<<>>)}
        \cup {JArr(ms) : ms \in SeqsUpTo(MsgValues, MaxItems)}

OutputsValues ==
    Atoms
        \cup {JArr(<<>>), Obj1("output", Found), Obj1("output", JNum(42))}
        \cup {Obj1("generations", g) : g \in GenerationsValues}
        \cup {Obj1("messages", ms) : ms \in MessagesValues}
        \cup {Obj2("generations", JArr(<<JArr(<<Obj1("text", EmptyText)>>)>>),
                   "messages", JArr(<<Obj1("content", Found)>>)),
              Obj2("messages", JArr(<<JNull>>), "output", Found)}

Values ==
    Atoms
        \cup {JArr(<<>>), JArr(<<Found>>), Obj1("foo", JStr(<<"bar">>))}
        \cup {Obj1("outputs", o) : o \in OutputsValues}
        \cup {Obj1("messages", ms) : ms \in MessagesValues}
        \cup {Obj1("generations", g) : g \in GenerationsValues}
        \cup {Obj2("outputs", Obj1("output", JNum(42)),
                   "messages", JArr(<<Obj1("content", Found)>>)),
              Obj2("outputs", JNull,
                   "messages", JArr(<<Obj1("content", Found)>>)),
              Obj2("messages", JArr(<<>>),
                   "generations", JArr(<<JArr(<<Obj1("text", Found)>>)>>))}

\* the JSON text of a value, its strings and keys between quotes q
RECURSIVE Serialize(_, _)
RECURSIVE SerializeItems(_, _, _)
SerializeItems(items, q, isObject) ==
    IF items = <<>> THEN <<>>
    ELSE (IF isObject
          THEN <<q, Head(items)[1], q, ":">> \o Serialize(Head(items)[2], q)
          ELSE Serialize(Head(items), q))
             \o (IF Len(items) > 1 THEN <<",">> ELSE <<>>)
             \o SerializeItems(Tail(items), q, isObject)

Serialize(x, q) ==
    CASE x.t = "null" -> <<"null">>
      [] x.t = "bool" -> <<IF x.v THEN "true" ELSE "false">>
      [] x.t = "num" -> <<ToString(x.v)>>
      [] x.t = "str" -> <<q>> \o x.v \o <<q>>
      [] x.t = "arr" -> <<"[">> \o SerializeItems(x.v, q, FALSE) \o <<"]">>
      [] x.t = "obj" -> <<"{">> \o SerializeItems(x.v, q, TRUE) \o <<"}">>

\* the text as it is, single quotes kept
KeepQuotes(text) == text

\* text.replace(/'/g, '"')
ReplaceQuotes(text) ==
    [i \in 1..Len(text) |-> IF text[i] = "'" THEN "\"" ELSE text[i]]

\* JSON.parse(text): <<the value>>, or <<>> when it throws
JSONparseText(text) ==
    IF \E x \in Values : Serialize(x, "\"") = text
    THEN <<CHOOSE x \in Values : Serialize(x, "\"") = text>>
    ELSE <<>>

\* the payloads of a trace: values as they are, their JSON text with double
\* or with single quotes, plain words
Payloads ==
    Values
        \cup {JStr(Serialize(x, q)) : x \in Values, q \in {"\"", "'"}}
        \cup {JStr(<<"end">>), JStr(<<"None">>)}

----------------------------------------------------------------------------
(* extractLLMContent: the two copies. An outcome is a returned value       *)
(* (JUndefined: no canonical text) or a raised TypeError.                  *)

Returns(x) == [kind |-> "returns", value |-> x]
Throws == [kind |-> "throws", value |-> JUndefined]

\* for (const msg of messages) { if (msg?.content) return msg.content }
RECURSIVE FirstContent(_)
FirstContent(ms) ==
    IF ms = <<>> THEN <<>>
    ELSE LET c == OptGet(Head(ms), "content")
         IN  IF Truthy(c) THEN <<c>> ELSE FirstContent(Tail(ms))

\* the message content alone, the text field never read
GenMessageOnly(gen) ==
    LET c == OptGet(OptGet(gen, "message"), "content")
    IN  IF Truthy(c) THEN <<c>> ELSE <<>>

\* if (gen?.text) return gen.text
\* if (gen?.message?.content) return gen.message.content
GenText(gen) ==
    LET text == OptGet(gen, "text")
        c == OptGet(OptGet(gen, "message"), "content")
    IN  IF Truthy(text) THEN <<text>>
        ELSE IF Truthy(c) THEN <<c>>
        ELSE <<>>

\* the body of step 2 once outputs is known to allow property access
FromOutputs(outputs, gen) ==
    LET fromGen == GenText(gen)
        ms == Get(outputs, "messages")
        fromMessages == IF IsArray(ms) THEN FirstContent(ms.v) ELSE <<>>
        output == Get(outputs, "output")
    IN  IF Len(fromGen) > 0 THEN <<Returns(fromGen[1])>>
        ELSE IF Len(fromMessages) > 0 THEN <<Returns(fromMessages[1])>>
        ELSE IF output.t = "str" THEN <<Returns(output)>>
        ELSE <<>>

\* step 4 once content is known to be an object with an array generations
FromGenerations(gens) ==
    IF IsArray(gens) /\ IsArray(First(gens))
    THEN GenText(First(First(gens)))
    ELSE <<>>

\* mindfort-agentic copy, steps 2 to 4: the value after step 1 is content
AgenticResolve(c) ==
    LET outputs == Get(c, "outputs")
        gens == Get(outputs, "generations")
        step2 == IF TypeofObject(c) /\ c.t # "null" /\ In("outputs", c)
                 THEN IF GetThrows(outputs) THEN <<Throws>>
                      ELSE FromOutputs(outputs,
                               IF Truthy(gens) /\ IsArray(gens) /\ IsArray(First(gens))
                               THEN First(First(gens)) ELSE JNull)
                 ELSE <<>>
        ms == Get(c, "messages")
        step3 == IF In("messages", c) /\ IsArray(ms) THEN FirstContent(ms.v) ELSE <<>>
        step4 == IF In("generations", c)
                 THEN FromGenerations(Get(c, "generations")) ELSE <<>>
    IN  IF Len(step2) > 0 THEN step2[1]
        ELSE IF InThrows(c) THEN Throws
        ELSE IF Len(step3) > 0 THEN Returns(step3[1])
        ELSE IF Len(step4) > 0 THEN Returns(step4[1])
        ELSE Returns(JUndefined)

\* frontend copy, steps 2 to 4
FrontendResolve(c) ==
    LET isObject == TypeofObject(c) /\ c.t # "null"
        outputs == Get(c, "outputs")
        gens == Get(outputs, "generations")
        first == First(First(gens))
        step2 == IF isObject /\ In("outputs", c)
                    /\ TypeofObject(outputs) /\ outputs.t # "null"
                 THEN FromOutputs(outputs,
                          IF In("generations", outputs)
                             /\ IsArray(gens) /\ IsArray(First(gens))
                             /\ TypeofObject(first) /\ first.t # "null"
                          THEN first ELSE JUndefined)
                 ELSE <<>>
        ms == Get(c, "messages")
        step3 == IF isObject /\ In("messages", c) /\ IsArray(ms)
                 THEN FirstContent(ms.v) ELSE <<>>
        step4 == IF isObject /\ In("generations", c)
                    /\ IsArray(Get(c, "generations"))
                 THEN FromGenerations(Get(c, "generations")) ELSE <<>>
    IN  IF Len(step2) > 0 THEN step2[1]
        ELSE IF Len(step3) > 0 THEN Returns(step3[1])
        ELSE IF Len(step4) > 0 THEN Returns(step4[1])
        ELSE Returns(JUndefined)

AgenticExtractLLMContent(raw) ==
    LET parsed == IF raw.t = "str" THEN JSONparseText(ReplaceQuotes(raw.v)) ELSE <<raw>>
    IN  IF Len(parsed) = 0 THEN Returns(raw) ELSE AgenticResolve(parsed[1])

FrontendExtractLLMContent(raw) ==
    LET parsed == IF raw.t = "str" THEN JSONparseText(ReplaceQuotes(raw.v)) ELSE <<raw>>
    IN  IF Len(parsed) = 0 THEN Returns(raw) ELSE FrontendResolve(parsed[1])

TraceInit ==
    /\ IngestIdle
    /\ EnrichIdle
    /\ ChatIdle
    /\ store = EmptyStore
    /\ envelope \in {<<p>> : p \in Payloads}
    /\ agentic = <<>>
    /\ frontend = <<>>

\* the mindfort-agentic trace page renders the payload
AgenticRender ==
    /\ agentic = <<>>
    /\ agentic' = <<AgenticExtractLLMContent(envelope[1])>>
    /\ UNCHANGED <<envelope, frontend>>
    /\ UNCHANGED <<store, ingestVars, enrichVars, chatVars>>

\* the frontend trace page renders the payload
FrontendRender ==
    /\ frontend = <<>>
    /\ frontend' = <<FrontendExtractLLMContent(envelope[1])>>
    /\ UNCHANGED <<envelope, agentic>>
    /\ UNCHANGED <<store, ingestVars, enrichVars, chatVars>>

TraceNext ==
    \/ AgenticRender
    \/ FrontendRender

SpecTrace == TraceInit /\ [][TraceNext]_vars

----------------------------------------------------------------------------
(* Properties of ingestFindings *)

Committed(i) == i \in 1..Len(ilog) /\ ilog[i] = "committed"

UrlOf(r) == FindingParams(r).url

FindingNodes(g, r) == MatchNodes(g, "Finding", <<r.finding_id>>)
VulnNodes(g, r)    == MatchNodes(g, "Vulnerability", <<r.vulnerability.cwe_id>>)
AssetNodes(g, r)   == MatchNodes(g, "Asset", <<UrlOf(r)>>)
PackageNodes(g, r) == MatchNodes(g, "Package", <<r.package[1].name, r.package[1].version>>)

UsesPackageInto(g, p) == {e \in EdgesOf(g, "USES_PACKAGE") : e.dst = p}

\* the graph holds every node and edge the record prescribes
Persisted(g, r) ==
    /\ \E f \in FindingNodes(g, r) :
        /\ \E v \in VulnNodes(g, r) : MatchEdges(g, "HAS_VULNERABILITY", f, v) # {}
        /\ \E a \in AssetNodes(g, r) : MatchEdges(g, "AFFECTS", f, a) # {}
    /\ r.package # NoPackage =>
        \E p \in PackageNodes(g, r) : UsesPackageInto(g, p) # {}

\* exactly one node per key and one edge of each kind for the record
ExactlyOnce(g, r) ==
    /\ Cardinality(FindingNodes(g, r)) = 1
    /\ Cardinality(VulnNodes(g, r)) = 1
    /\ Cardinality(AssetNodes(g, r)) = 1
    /\ \A f \in FindingNodes(g, r) :
        /\ \A v \in VulnNodes(g, r) :
              EdgeCount(g, MatchEdges(g, "HAS_VULNERABILITY", f, v)) = 1
        /\ \A a \in AssetNodes(g, r) :
              EdgeCount(g, MatchEdges(g, "AFFECTS", f, a)) = 1
    /\ r.package # NoPackage =>
        /\ Cardinality(PackageNodes(g, r)) = 1
        /\ \A p \in PackageNodes(g, r) : EdgeCount(g, UsesPackageInto(g, p)) = 1

\* the committed records, latest first, that wrote the node of a given kind
LastCommitted(S) == CHOOSE i \in S : \A j \in S : j <= i

\* the attributes of the record's nodes are those of the latest committed
\* record with the same key
LatestValues(g, i) ==
    LET r  == findings[i]
        lf == findings[LastCommitted({j \in 1..Len(ilog) :
                  Committed(j) /\ findings[j].finding_id = r.finding_id})]
        lv == findings[LastCommitted({j \in 1..Len(ilog) :
                  Committed(j) /\ findings[j].vulnerability.cwe_id = r.vulnerability.cwe_id})]
        la == findings[LastCommitted({j \in 1..Len(ilog) :
                  Committed(j) /\ UrlOf(findings[j]) = UrlOf(r)})]
    IN  /\ \A f \in FindingNodes(g, r) :
              g.nodes[f] = [scanner |-> lf.scanner, scan_id |-> lf.scan_id,
                                  timestamp |-> [datetime |-> lf.timestamp]]
        /\ \A v \in VulnNodes(g, r) :
              g.nodes[v] = [title |-> lv.vulnerability.title,
                                  description |-> lv.vulnerability.description,
                                  severity |-> lv.vulnerability.severity,
                                  vector |-> lv.vulnerability.vector,
                                  owasp_id |-> lv.vulnerability.owasp_id]
        /\ \A a \in AssetNodes(g, r) :
              g.nodes[a] = [type |-> la.asset.type,
                                  service |-> IF la.asset.service = Null
                                              THEN "unknown" ELSE la.asset.service]

\* the record now in its transaction was committed before
IngestedBefore == \E j \in 1..(idx - 1) : Committed(j) /\ findings[j] = CurrentRecord

\* C1: a record ingested twice (or more) leaves exactly one Finding,
\* Vulnerability, Asset and Package node for its keys, carrying the most
\* recently ingested attribute values, and exactly one HAS_VULNERABILITY,
\* AFFECTS and USES_PACKAGE edge; the second ingestion adds no node and no
\* edge to the graph.
C1_IdempotentIngestion ==
    /\ \A i \in 1..Len(ilog) :
          Committed(i) => ExactlyOnce(store, findings[i]) /\ LatestValues(store, i)
    /\ (ipc = "commit" /\ IngestedBefore) =>
          /\ NodeIds(tx[1]) = NodeIds(store)
          /\ tx[1].edges = store.edges

\* C1 witness: the same record, with a package, was committed twice
C1_Witness ==
    \E i, j \in 1..Len(ilog) :
        /\ i < j /\ Committed(i) /\ Committed(j)
        /\ findings[i] = findings[j]
        /\ findings[i].package # NoPackage

\* C2: when the write of a record fails (first statement, package statement,
\* commit or rollback), ingestFindings still processes every later record,
\* every record whose own write succeeded is persisted, and no exception
\* leaves ingestFindings because of the failed record.
C2_PartialBatchResilience ==
    /\ ~(ipc = "raised" /\ err # "close")
    /\ ipc \in {"done", "raised"} =>
          /\ Len(ilog) = Len(findings)
          /\ \A i \in 1..Len(ilog) : Committed(i) => Persisted(store, findings[i])

\* C3: the committed graph changes only at the commit of a record, and
\* then it holds everything the record prescribes; the statements of a
\* record that is rolled back (also after its first statement succeeded
\* and its package statement failed) leave the committed graph as it was.
C3_AllOrNothing ==
    [][ /\ ipc # "commit" => store' = store
        /\ ipc = "commit" => (store' = store \/ Persisted(store', CurrentRecord)) ]_vars

\* C3 witness: a record's package statement failed after its first statement
\* had created the Finding inside the transaction; after the rollback the
\* committed graph has no such Finding
C3_Witness ==
    /\ ipc = "loop" /\ idx >= 1 /\ Len(ilog) = idx
    /\ ilog[idx] = "rolledback:query2"
    /\ FindingNodes(store, CurrentRecord) = {}

----------------------------------------------------------------------------
(* Properties of enrichGraph *)

\* the text order of the finding ids: "1" < "10" < "2"
TextOrder == {<<Id1, Id10>>, <<Id1, Id2>>, <<Id10, Id2>>}

\* C4: every candidate pair (id1, id2) one run sends to the oracle has
\* id1 < id2, so the run never evaluates a pair and its mirror image, nor
\* a finding with itself.
C4_CanonicalPairOrder ==
    \A r \in BagToSet(asked) :
        /\ <<r.id1, r.id2>> \in TextOrder
        /\ \A q \in BagToSet(asked) : ~(q.id1 = r.id2 /\ q.id2 = r.id1)

\* C4 witness: a run has sent two different pairs of findings with the same
\* vector to the oracle
C4_Witness ==
    /\ epc = "closed"
    /\ \E r, q \in BagToSet(asked) :
          r.vector = q.vector /\ <<r.id1, r.id2>> # <<q.id1, q.id2>>

YesSharedUpper ==
    <<"Y", "E", "S", ",", " ", "T", "H", "E", "Y", " ", "S", "H", "A", "R", "E", " ",
      "A", " ", "R", "O", "O", "T", " ", "C", "A", "U", "S", "E">>
YesSharedLower ==
    <<"y", "e", "s", ",", " ", "t", "h", "e", "y", " ", "s", "h", "a", "r", "e", " ",
      "a", " ", "r", "o", "o", "t", " ", "c", "a", "u", "s", "e">>

\* the text holds y, e, s in a row, each in either case
ContainsYesAnyCase(t) ==
    \E i \in 1..(Len(t) - 2) :
        t[i] \in {"y", "Y"} /\ t[i + 1] \in {"e", "E"} /\ t[i + 2] \in {"s", "S"}

\* a RELATED_TO edge from the finding id1 to the finding id2 with the reason
LinkedBy(g, id1, id2, reason) ==
    \E e \in EdgesOf(g, "RELATED_TO") :
        /\ e.src \in MatchNodes(g, "Finding", <<id1>>)
        /\ e.dst \in MatchNodes(g, "Finding", <<id2>>)
        /\ e.reason = reason

\* C5: for each candidate pair whose reply arrived and whose write, if any,
\* went through, the store holds afterwards a RELATED_TO edge with the reply
\* as reason if the reply contains "yes" in any letter case, anywhere, and
\* is unchanged otherwise; "Yes, they share a root cause" in any case is
\* affirmative, "No relation found" is not.
C5_AffirmativeClassification ==
    /\ \A t \in {YesShared, YesSharedUpper, YesSharedLower} : Affirmative(t)
    /\ ~Affirmative(NoRelation)
    /\ [][ (epc = "classify" /\ epc' = "loop") =>
             IF ContainsYesAnyCase(agentReply)
             THEN LinkedBy(store', row[1].id1, row[1].id2, agentReply)
             ELSE store' = store ]_vars

\* C5 witness: the reply "Yes, they share a root cause" has produced its edge
C5_Witness ==
    /\ epc = "loop"
    /\ agentReply = YesShared
    /\ LinkedBy(store, row[1].id1, row[1].id2, YesShared)

\* C6: a failure of the oracle call or of the edge write for one pair skips
\* that pair only: when the run ends, every row of the candidate query has
\* been sent to the oracle.
C6_PairFailureIsLocal ==
    epc \in {"closed", "raised"} => asked = records

----------------------------------------------------------------------------
(* Properties of sendMessage *)

\* the bodies made of event lines only
EventBodies == {<<>>} \cup {Terminated(ls) : ls \in SeqsUpTo(EventLines, MaxLines)}

\* the agent messages of the conversation
AgentMessages == SelectSeq(messages, LAMBDA m : m.role = "agent")

\* C7 - chunking equivalence: for a body made of prefixed event lines, however
\* the transport cut it into chunks (in the middle of the prefix, in the
\* middle of a JSON object, right before a newline), the steps emitted when
\* the stream ends are the steps emitted when the whole body arrives as one
\* chunk.
C7_ChunkingEquivalence ==
    (spc = "done" /\ body \in EventBodies) => steps = OnChunk(<<>>, body).steps

\* the content the spec gives for a list of steps: every step shown as
\* "<step>: <content>", two newlines between one step and the next
RECURSIVE StepsThenBlankLine(_)
StepsThenBlankLine(ss) ==
    IF ss = <<>> THEN ""
    ELSE LET n == Len(ss)
         IN  StepsThenBlankLine(SubSeq(ss, 1, n - 1))
                 \o (IF n = 1 THEN "" ELSE "\n\n")
                 \o ss[n].step \o ": " \o ss[n].content

IsThoughtThenFinal(ss) ==
    /\ Len(ss) = 2
    /\ ss[1].step = "Thought" /\ ss[1].content = "checking"
    /\ ss[2].step = "Final Answer" /\ ss[2].content = "SQL injection confirmed"

\* C8 - aggregate message: when the stream ends exactly one agent message is
\* appended; its content is every step as "<step>: <content>" in order of
\* arrival, joined by a blank line; steps (Thought, checking) and (Final
\* Answer, SQL injection confirmed) give
\* "Thought: checking\n\nFinal Answer: SQL injection confirmed" and no step
\* gives the empty text. No agent message exists before the stream ends.
C8_AggregateMessage ==
    /\ spc # "done" => Len(AgentMessages) = 0
    /\ spc = "done" =>
          /\ Len(AgentMessages) = 1
          /\ messages[Len(messages)].role = "agent"
          /\ AgentMessages[1].content = StepsThenBlankLine(steps)
          /\ steps = <<>> => AgentMessages[1].content = ""
          /\ IsThoughtThenFinal(steps) =>
                AgentMessages[1].content
                    = "Thought: checking\n\nFinal Answer: SQL injection confirmed"

C8_Witness ==
    /\ spc = "done"
    /\ IsThoughtThenFinal(steps)
    /\ Len(messages) = 2
    /\ messages[2].content = "Thought: checking\n\nFinal Answer: SQL injection confirmed"

\* C9 - read failure: when reading the stream fails the call is in its failed
\* state with the loading flag cleared and no agent message appended.
C9_ReadFailureClearsLoading ==
    spc = "read-failed" => (loading = FALSE /\ Len(AgentMessages) = 0)

----------------------------------------------------------------------------
(* Properties of extractLLMContent *)

\* C10 - total and non-throwing: for every payload (text that parses or does
\* not parse as JSON, text parsing to a number, boolean, null or string; null;
\* an array; an object whose outputs, messages or generations are null,
\* non-arrays, empty arrays or arrays with null elements) each copy of
\* extractLLMContent returns a display value or undefined, and never raises.
C10_ExtractIsTotal ==
    /\ Len(agentic) = 1 => agentic[1].kind = "returns"
    /\ Len(frontend) = 1 => frontend[1].kind = "returns"

\* the payloads of the three examples, as values and as JSON text
GenerationsEnvelope ==
    Obj1("outputs", Obj1("generations", JArr(<<JArr(<<Obj1("text", Found)>>)>>)))
FooBar == Obj1("foo", JStr(<<"bar">>))
PlainEnd == JStr(<<"end">>)
AsValueOrText(x) == {x, JStr(Serialize(x, "\""))}

\* both copies have run and returned x
BothReturn(x) == agentic = <<Returns(x)>> /\ frontend = <<Returns(x)>>

\* every copy that has run returned x
EachReturns(x) ==
    /\ Len(agentic) = 1 => agentic[1] = Returns(x)
    /\ Len(frontend) = 1 => frontend[1] = Returns(x)

\* C11 - the three examples: {"outputs":{"generations":[[{"text":"Found SQL
\* injection"}]]}} gives "Found SQL injection", {"foo":"bar"} gives undefined
\* and the plain text end gives "end", for both copies, the structure being
\* passed as an object or as its JSON text.
C11_Examples ==
    /\ envelope[1] \in AsValueOrText(GenerationsEnvelope) => EachReturns(Found)
    /\ envelope[1] \in AsValueOrText(FooBar) => EachReturns(JUndefined)
    /\ envelope[1] = PlainEnd => EachReturns(PlainEnd)

C11_Witness ==
    /\ envelope[1] = JStr(Serialize(GenerationsEnvelope, "\""))
    /\ BothReturn(Found)

\* the value of the first element of ms that has a content, if any
FirstWithContent(ms) ==
    IF IsArray(ms) /\ \E i \in 1..Len(ms.v) : Truthy(OptGet(ms.v[i], "content"))
    THEN LET i == CHOOSE i \in 1..Len(ms.v) :
                      /\ Truthy(OptGet(ms.v[i], "content"))
                      /\ \A j \in 1..(i - 1) : ~Truthy(OptGet(ms.v[j], "content"))
         IN  <<OptGet(ms.v[i], "content")>>
    ELSE <<>>

\* generations[0][0].text, else its message.content, if any
TextOrMessageContent(gens) ==
    IF IsArray(gens) /\ IsArray(First(gens))
    THEN LET gen == First(First(gens))
         IN  IF Truthy(OptGet(gen, "text")) THEN <<OptGet(gen, "text")>>
             ELSE IF Truthy(OptGet(OptGet(gen, "message"), "content"))
             THEN <<OptGet(OptGet(gen, "message"), "content")>>
             ELSE <<>>
    ELSE <<>>

\* the five shapes in their order of priority: what each yields for c
Shapes(c) ==
    LET outputs == OptGet(c, "outputs")
        output == OptGet(outputs, "output")
    IN  << TextOrMessageContent(OptGet(outputs, "generations")),
           FirstWithContent(OptGet(outputs, "messages")),
           IF output.t = "str" THEN <<output>> ELSE <<>>,
           FirstWithContent(OptGet(c, "messages")),
           TextOrMessageContent(OptGet(c, "generations")) >>

\* the value of the highest-priority shape that matches, else undefined
ByPriority(c) ==
    IF \E k \in 1..5 : Len(Shapes(c)[k]) > 0
    THEN Shapes(c)[CHOOSE k \in 1..5 :
                      /\ Len(Shapes(c)[k]) > 0
                      /\ \A j \in 1..(k - 1) : Len(Shapes(c)[j]) = 0][1]
    ELSE JUndefined

\* the structure a payload stands for: a text that parses stands for the
\* parsed value
Resolved(raw) ==
    IF raw.t = "str" /\ Len(JSONparseText(ReplaceQuotes(raw.v))) = 1
    THEN JSONparseText(ReplaceQuotes(raw.v))[1]
    ELSE raw

IsPlainText(raw) ==
    raw.t = "str" /\ Len(JSONparseText(ReplaceQuotes(raw.v))) = 0

\* C12 - fixed priority, first match wins: outputs.generations[0][0].text or
\* its message.content; the first content in outputs.messages;
\* outputs.output when it is text; the first content in top-level messages;
\* top-level generations[0][0].text or its message.content; otherwise
\* undefined. Each copy returns the value of the highest-priority shape the
\* payload matches.
C12_FixedPriority ==
    ~IsPlainText(envelope[1]) => EachReturns(ByPriority(Resolved(envelope[1])))

\* the same, for the copies taken one by one
FrontendByPriority ==
    (Len(frontend) = 1 /\ ~IsPlainText(envelope[1]))
        => frontend[1] = Returns(ByPriority(Resolved(envelope[1])))
AgenticByPriorityUnlessRaised ==
    (Len(agentic) = 1 /\ ~IsPlainText(envelope[1]) /\ agentic[1] # Throws)
        => agentic[1] = Returns(ByPriority(Resolved(envelope[1])))

----------------------------------------------------------------------------
(* Properties of enrichGraph over a populated graph *)

RelatedTo(g) == EdgesOf(g, "RELATED_TO")

\* findings a and b each have a vulnerability, the two with one vector
ShareVector(g, a, b) ==
    \E e1, e2 \in HasVulnerability(g) :
        /\ IdOf(e1) = a
        /\ IdOf(e2) = b
        /\ VectorOf(g, e1) # Null
        /\ VectorOf(g, e1) = VectorOf(g, e2)

\* C13 - every RELATED_TO edge enrichGraph writes goes from the finding with
\* the lower id to the one with the higher id; at the moment of the write
\* both ends have a vulnerability with the same vector, also when ingestion
\* commits between the candidate query and the write; the store never holds
\* an edge a->b together with an edge b->a.
C13_RelatedOnlyOnSharedVector ==
    /\ [](\A e \in RelatedTo(store) :
            /\ IdLess(e.src[2][1], e.dst[2][1])
            /\ ~\E m \in RelatedTo(store) : m.src = e.dst /\ m.dst = e.src)
    /\ [][RelatedTo(store') # RelatedTo(store)
            => ShareVector(store, row[1].id1, row[1].id2)]_vars

\* the part of C13 that does not depend on the time of the write
RelatedInCanonicalDirection ==
    \A e \in RelatedTo(store) :
        /\ IdLess(e.src[2][1], e.dst[2][1])
        /\ ~\E m \in RelatedTo(store) : m.src = e.dst /\ m.dst = e.src

\* the RELATED_TO edges from finding a to finding b, each copy counted
RelatedCount(g, a, b) ==
    EdgeCount(g, {e \in RelatedTo(g) : e.src[2][1] = a /\ e.dst[2][1] = b})

\* C14 - re-running enrichment on a pair that already received an
\* affirmative verdict leaves a single RELATED_TO edge: after any number of
\* affirmative classifications of the pair (a, b), whatever the reply texts,
\* there is exactly one RELATED_TO edge from a to b.
C14_SingleEdgePerPair ==
    \A a, b \in FindingIds : RelatedCount(store, a, b) <= 1

----------------------------------------------------------------------------
(* Properties of the package statement of ingestFindings *)

NodeLabels == {"Finding", "Vulnerability", "Asset", "Package"}

\* C15 - after a record with a package descriptor is ingested successfully
\* the store holds a USES_PACKAGE edge from that record's Finding node to the
\* Package node keyed by (name, version); ingestion creates no node other
\* than Finding, Vulnerability, Asset and Package nodes; records without a
\* package descriptor create no Package node and no USES_PACKAGE edge.
C15_UsesPackageFromFinding ==
    /\ \A i \in 1..Len(ilog) :
          (Committed(i) /\ findings[i].package # NoPackage) =>
              \E f \in FindingNodes(store, findings[i]) :
                  \E p \in PackageNodes(store, findings[i]) :
                      MatchEdges(store, "USES_PACKAGE", f, p) # {}
    /\ \A n \in NodeIds(store) : n[1] \in NodeLabels
    /\ (\A i \in 1..Len(ilog) : Committed(i) => findings[i].package = NoPackage) =>
          /\ \A n \in NodeIds(store) : n[1] # "Package"
          /\ EdgesOf(store, "USES_PACKAGE") = {}

----------------------------------------------------------------------------
(* Properties of the read loop of sendMessage *)

\* position p of the body is the start of a line
AtLineStart(p) == p = 0 \/ body[p] = Newline

\* the lines of the body between two line starts p < q
LinesBetween(p, q) == Split(SubSeq(body, p + 1, q - 1), Newline)

\* the steps of the well-formed event lines among ls, in their order
RECURSIVE StepsOfLines(_)
StepsOfLines(ls) ==
    IF ls = <<>> THEN <<>>
    ELSE (IF Head(ls) = EventLine(ThoughtStep) THEN <<ThoughtStep>>
          ELSE IF Head(ls) = EventLine(FinalStep) THEN <<FinalStep>>
          ELSE <<>>) \o StepsOfLines(Tail(ls))

\* a chunk of whole lines is read while nothing is carried over
WholeLinesRead ==
    /\ spc = "reading"
    /\ pos' > pos
    /\ buffer = <<>>
    /\ AtLineStart(pos)
    /\ AtLineStart(pos')

C17_TraceIdOfLastStep ==
    spc = "done" =>
        LET m == messages[Len(messages)]
        IN  /\ m.role = "agent"
            /\ steps = <<>> => m.external_trace_id = Null
            /\ steps # <<>> => m.external_trace_id = steps[Len(steps)].trace_id
            /\ (steps # <<>> /\ steps[Len(steps)] = FinalStep) =>
                   m.external_trace_id = Null
            /\ (steps # <<>> /\ steps[Len(steps)] = ThoughtStep) =>
                   m.external_trace_id = "t1"

C17_Witness ==
    /\ spc = "done"
    /\ steps = <<ThoughtStep, FinalStep>>
    /\ messages[Len(messages)].external_trace_id = Null

\* a is b with some elements left out, the others in their order
RECURSIVE IsSubsequence(_, _)
IsSubsequence(a, b) ==
    IF a = <<>> THEN TRUE
    ELSE IF b = <<>> THEN FALSE
    ELSE IF Head(a) = Head(b) THEN IsSubsequence(Tail(a), Tail(b))
    ELSE IsSubsequence(a, Tail(b))

IsPrefix(a, b) == Len(a) <= Len(b) /\ SubSeq(b, 1, Len(a)) = a

\* the steps of the event lines received so far, in the order of arrival
ArrivedSteps == StepsOfLines(Split(SubSeq(body, 1, pos), Newline))

\* C18 - within one stream the steps are emitted in the order their lines
\* arrive: the emitted sequence only grows at its end, and between the first
\* chunk and the terminal state no step is reordered, duplicated or removed.
C18_InOrderEmission ==
    /\ [][IsPrefix(steps, steps')]_vars
    /\ [](IsSubsequence(steps, ArrivedSteps))
    /\ [](spc = "reading" => agentSteps = steps)

C18_Witness ==
    /\ spc = "reading"
    /\ body = Terminated(<<EventLine(FinalStep), EventLine(ThoughtStep)>>)
    /\ pos = Len(body)
    /\ steps = <<FinalStep, ThoughtStep>>
    /\ agentSteps = steps

(***************************************************************************)
(* Properties of the batch size of enrichGraph                             *)
(***************************************************************************)

\* the MERGE statements of the run that were carried out
Linked == Len(SelectSeq(elog, LAMBDA l : l = "Linked"))

\* C19 - one run of enrichGraph selects at most 5 candidate pairs, whatever
\* the store holds, and so makes at most 5 oracle calls and writes at most 5
\* RELATED_TO edges in the run.
C19_AtMostFivePerRun ==
    /\ BagCardinality(records) <= Limit
    /\ BagCardinality(asked) <= BagCardinality(records)
    /\ Linked <= BagCardinality(asked)
    /\ EdgeCount(store, RelatedTo(store)) <= Linked

C19_Witness ==
    /\ epc = "closed"
    /\ Cardinality(CandidateMatches(store)) > Limit
    /\ BagCardinality(asked) = Limit
    /\ Linked = Limit

(***************************************************************************)
(* Properties of the text sendMessage carries from chunk to chunk          *)
(***************************************************************************)

\* the text of the lines among ls that do not begin with the event prefix
RECURSIVE OtherText(_)
OtherText(ls) ==
    IF ls = <<>> THEN <<>>
    ELSE (IF StartsWith(Head(ls), DataPrefix) THEN <<>> ELSE Head(ls))
         \o OtherText(Tail(ls))

\* everything received so far was whole lines, and the buffer holds the text
\* of those without the prefix
WholeLinesAfterOtherText ==
    /\ spc = "reading"
    /\ pos' > pos
    /\ AtLineStart(pos)
    /\ AtLineStart(pos')
    /\ buffer = OtherText(LinesBetween(0, pos))

\* C20 - text of a line without the event prefix is kept and put in front
\* of the next chunk without losing an event: every newline-terminated,
\* well-formed event line the backend sends is emitted as exactly one step,
\* whatever lines without the prefix (blank or other text) were received
\* before it, in the same chunk or in an earlier one.
C20_NoEventLostAfterOtherText ==
    [][WholeLinesAfterOtherText =>
          steps' = steps \o StepsOfLines(LinesBetween(pos, pos'))]_vars

\* blank lines before an event line, in any chunk, lose nothing
BlankLinesLoseNothing ==
    [][(WholeLinesAfterOtherText /\ buffer = <<>>) =>
          steps' = steps \o StepsOfLines(LinesBetween(pos, pos'))]_vars

(***************************************************************************)
(* Properties of step 1 of extractLLMContent                               *)
(***************************************************************************)

Quotes == {"\"", "'"}

\* the payload is the JSON text of x, with double or with single quotes
IsTextOf(x) == \E q \in Quotes : envelope[1] = JStr(Serialize(x, q))

\* the payload is a text that is the JSON text of no value
IsUnparsable ==
    /\ envelope[1].t = "str"
    /\ ~\E x \in Values : IsTextOf(x)

\* every copy that has run gave what it gives for the payload x
EachAsFor(x) ==
    /\ Len(agentic) = 1 => agentic[1] = AgenticExtractLLMContent(x)
    /\ Len(frontend) = 1 => frontend[1] = FrontendExtractLLMContent(x)

\* C21 as stated - a text that does not parse is returned unchanged, and a
\* text that parses gives what extractLLMContent gives for the parsed value,
\* of whatever kind (object, array, string, number, boolean, null).
C21_ParsedTextAsParsedValue ==
    /\ IsUnparsable => EachReturns(envelope[1])
    /\ \A x \in Values : IsTextOf(x) => EachAsFor(x)

\* C21 - a text that does not parse is returned unchanged; a text that
\* parses to an object, an array, a number, a boolean or null gives what
\* extractLLMContent gives for that value; a text that parses to a string is
\* not parsed a second time: steps 2 to 4 run on the string, the frontend
\* copy returns undefined and the mindfort-agentic copy raises.
C21_ParsedOnce ==
    /\ IsUnparsable => EachReturns(envelope[1])
    /\ \A x \in Values : (IsTextOf(x) /\ x.t # "str") => EachAsFor(x)
    /\ \A x \in Values : (IsTextOf(x) /\ x.t = "str") =>
          /\ Len(agentic) = 1 => agentic[1] = Throws
          /\ Len(frontend) = 1 => frontend[1] = Returns(JUndefined)

C21_Witness ==
    /\ envelope[1] = JStr(Serialize(Found, "'"))
    /\ agentic = <<Throws>>
    /\ frontend = <<Returns(JUndefined)>>
    /\ FrontendExtractLLMContent(Found) = Returns(Found)

(***************************************************************************)
(* Properties of several calls of sendMessage on one page                  *)
(***************************************************************************)

\* the calls whose response body is being read
Reading == {i \in DOMAIN calls : calls[i].pc = "reading"}

\* C22 - at any time at most one response stream is open per chat page: a
\* call of sendMessage never starts a second stream while the stream of an
\* earlier call has not reached its end or failed.
C22_AtMostOneOpenStream == Cardinality(Reading) <= 1

\* C28 - loading is true whenever a stream started by sendMessage has not
\* reached its terminal state: the end of one stream never clears loading
\* while another stream is still open.
C28_LoadingWhileAnyStreamOpen == Reading # {} => loading

\* the agent message call i appends when its stream ends
AgentMessageOf(i) ==
    [role |-> "agent",
     content |-> Aggregate(calls[i].steps),
     external_trace_id |-> LastTraceId(calls[i].steps)]

\* the steps of the event lines call i has received so far
ArrivedStepsOf(i) ==
    StepsOfLines(Split(SubSeq(calls[i].body, 1, calls[i].pos), Newline))

\* C29 - the step accumulator and the carry-over buffer belong to one stream
\* only: with two streams open at once, the agent message of each stream is
\* built from exactly the steps of that stream, in its order of arrival, and
\* neither a step nor buffered text of the other stream gets into it.
C29_LocalsOfOneStream ==
    /\ [][\A i \in DOMAIN calls :
            (calls[i].pc = "reading" /\ calls'[i].pc = "done") =>
                messages' = Append(messages, AgentMessageOf(i))]_vars
    /\ [](\A i \in DOMAIN calls :
            /\ IsSubsequence(calls[i].steps, ArrivedStepsOf(i))
            /\ IsSubsequence(calls[i].buffer,
                             SubSeq(calls[i].body, 1, calls[i].pos)))

\* both streams were open together, the second ended first, and each message
\* holds the step of its own stream
C29_Witness ==
    /\ Len(calls) = 2
    /\ calls[1].pc = "done" /\ calls[1].steps = <<ThoughtStep>>
    /\ calls[2].pc = "done" /\ calls[2].steps = <<FinalStep>>
    /\ Len(messages) = 4
    /\ messages[1].role = "user" /\ messages[2].role = "user"
    /\ messages[3] = AgentMessageOf(2)
    /\ messages[4] = AgentMessageOf(1)

(***************************************************************************)
(* Properties of the store under ingestFindings and enrichGraph            *)
(***************************************************************************)

\* every node and every relationship of g is in h, as often
GrowsInto(g, h) ==
    /\ NodeIds(g) \subseteq NodeIds(h)
    /\ \A e \in BagToSet(g.edges) : CopiesIn(e, h.edges) >= CopiesIn(e, g.edges)

FindingsOf(g) == {n \in NodeIds(g) : n[1] = "Finding"}

\* a step of an open transaction other than its successful commit
InsideTransaction == tx # NoTx /\ ~(ipc = "commit" /\ ipc' = "loop")

\* C23 - neither ingestion nor enrichment removes anything: the nodes and
\* the relationships of the store only grow, a Finding node once created is
\* in every later state, and a record that is rolled back leaves both as
\* they were.
C23_NothingRemoved ==
    /\ [][GrowsInto(store, store')]_vars
    /\ [][FindingsOf(store) \subseteq FindingsOf(store')]_vars
    /\ [][InsideTransaction =>
            /\ NodeIds(store') = NodeIds(store)
            /\ store'.edges = store.edges]_vars

C23_Witness ==
    /\ \E i \in 1..Len(ilog) : ilog[i] = "rolledback:query1"
    /\ \E i \in 1..Len(ilog) : ilog[i] = "committed"
    /\ RelatedTo(store) # {}
    /\ FindingsOf(store) # {}

(***************************************************************************)
(* Properties of the for loop of enrichGraph                               *)
(***************************************************************************)

\* a step that sends a row to the oracle
OracleCalled == asked' # asked

\* a step that writes a RELATED_TO relationship
EdgeWritten ==
    EdgeCount(store', RelatedTo(store')) # EdgeCount(store, RelatedTo(store))

\* C24 - enrichment takes the candidate rows strictly one after the other:
\* an oracle call starts only at the head of the loop, when neither a call
\* nor the write of an earlier row is pending; the write of a row is done
\* before the next call; each selected row is sent to the oracle at most once
\* in a run, and after a failure no further call is made.
C24_OneRowAtATime ==
    /\ [](\A r \in BagToSet(asked) : CopiesIn(r, asked) <= CopiesIn(r, records))
    /\ [][OracleCalled =>
            /\ epc = "loop"
            /\ epc' \in {"classify", "catch"}
            /\ BagCardinality(asked') = BagCardinality(asked) + 1]_vars
    /\ [][EdgeWritten =>
            /\ epc = "classify"
            /\ epc' = "loop"
            /\ asked' = asked
            /\ RelatedCount(store', row[1].id1, row[1].id2)
                   = RelatedCount(store, row[1].id1, row[1].id2) + 1]_vars
    /\ [][(epc \in {"catch", "finally", "closed", "raised"}) => ~OracleCalled]_vars

\* the first row was linked, the call for the second failed, and the rows
\* left were never sent
C24_Witness ==
    /\ epc = "closed"
    /\ elog = <<"Linked", "Error enriching graph">>
    /\ BagCardinality(asked) = 2
    /\ BagCardinality(records) > 2

(***************************************************************************)
(* Properties of the order of the records of a batch                       *)
(***************************************************************************)

\* the batch in every order
Reorderings(rs) ==
    {[i \in 1..Len(rs) |-> rs[p[i]]] :
        p \in {q \in [1..Len(rs) -> 1..Len(rs)] :
                  \A i, j \in 1..Len(rs) : q[i] = q[j] => i = j}}

\* ingestFindings is through the batch, every record committed, no two
\* records of the same finding
AllWritten ==
    /\ ipc = "done"
    /\ Len(ilog) = Len(findings)
    /\ \A i \in 1..Len(ilog) : ilog[i] = "committed"
    /\ \A i, j \in 1..Len(findings) :
          findings[i].finding_id = findings[j].finding_id => i = j

\* C25 - the records of a batch are independent of each other: for a batch
\* of distinct records whose writes all succeed the final store (nodes,
\* attribute values, relationships) is the same for every order of the
\* records, also when two records share a cwe_id or an asset location and
\* differ in the attribute values.
C25_OrderIndependent ==
    AllWritten => \A rs \in Reorderings(findings) : store = IngestAll(EmptyStore, rs)

\* the nodes and the relationships, attribute values aside, do not depend
\* on the order
SameGraphInEveryOrder ==
    AllWritten =>
        \A rs \in Reorderings(findings) :
            LET g == IngestAll(EmptyStore, rs)
            IN  NodeIds(g) = NodeIds(store) /\ g.edges = store.edges

(***************************************************************************)
(* Properties of the RELATED_TO relationships as the store changes         *)
(***************************************************************************)

\* the two ends of every RELATED_TO relationship of g share a vector
EndsShareVector(g) ==
    \A e \in RelatedTo(g) : ShareVector(g, e.src[2][1], e.dst[2][1])

\* C26 - in every state of the store, after any ingestion and enrichment
\* runs, the two ends of each RELATED_TO relationship have vulnerabilities
\* of one vector: a later ingestion that overwrites the vector of a
\* Vulnerability, or attaches a finding to another one, leaves no
\* relationship between findings that no longer share a vector.
C26_RelatedStillShareVector ==
    [][(RelatedTo(store') = RelatedTo(store) /\ EndsShareVector(store))
          => EndsShareVector(store')]_vars

\* C27 - within one run no pair of findings is sent to the oracle more than
\* once, also when a finding has several HAS_VULNERABILITY relationships so
\* that the same two findings match through several pairs of vulnerabilities.
C27_PairAskedOnce ==
    \A a, b \in FindingIds :
        BagCardinality([r \in {x \in BagToSet(asked) : x.id1 = a /\ x.id2 = b}
                           |-> CopiesIn(r, asked)]) <= 1

(***************************************************************************)
(* Properties of the two copies of extractLLMContent                       *)
(***************************************************************************)

\* C30 - the two copies of extractLLMContent are observationally equivalent:
\* for every payload they return the same value or both return undefined,
\* and neither raises on a payload the other accepts.
C30_CopiesEquivalent ==
    (Len(agentic) = 1 /\ Len(frontend) = 1) => agentic[1] = frontend[1]

\* whenever the mindfort-agentic copy returns, the frontend copy returns the
\* same
CopiesAgreeUnlessRaised ==
    (Len(agentic) = 1 /\ Len(frontend) = 1 /\ agentic[1] # Throws)
        => agentic[1] = frontend[1]

====
